---- MODULE Spec2Model ----
(* QR branding overlay engine of qrlink-rs: QrGenerator (src/qr/generator.rs), *)
(* its construction from Config (src/config.rs, src/service/qr_service.rs)    *)
(* and the per-request use of it (src/http/handlers.rs, src/http/router.rs).  *)
EXTENDS Integers, Sequences, FiniteSets, TLC

VARIABLES
    env,         \* environment of the process: variables and the files they name
    main_pc,     \* position of main
    config,      \* Config returned by Config::from_env
    qr_service,  \* QrService built by main and held in AppState
    exit_error,  \* error main returned with
    next_buf,    \* identity of the next pixel buffer allocated
    calls,       \* the requests: position in generate and local variables
    ov,          \* one isolated call of overlay_logo
    px,          \* one call of overlay_logo followed loop by loop
    ld,          \* one isolated call of load_logo
    limiter,     \* RateLimiter.state: IP -> (count, window_start)
    checks,      \* the calls of RateLimiter::check: position and locals
    instant,     \* the monotonic clock (Instant::now)
    links,       \* the rows of table links
    utc,         \* the wall clock (Utc::now)
    ops          \* the calls of LinkService: position and locals

qr_vars == <<env, main_pc, config, qr_service, exit_error, next_buf, calls>>
rate_vars == <<limiter, checks, instant>>
link_vars == <<links, utc, ops>>

vars == <<qr_vars, ov, px, ld, rate_vars, link_vars>>

Null == [none |-> TRUE]

Min(a, b) == IF a <= b THEN a ELSE b
Max(a, b) == IF a >= b THEN a ELSE b

(* ------------------------------------------------------------------ *)
(* IEEE-754 binary32 arithmetic on non-negative finite values.         *)
(* A value is [m, e] standing for m * 2^e, with m = 0 (zero) or        *)
(* 2^23 <= m < 2^24; every operation rounds to nearest, ties to even.  *)
(* ------------------------------------------------------------------ *)
RECURSIVE BitLen(_)
BitLen(n) == IF n = 0 THEN 0 ELSE 1 + BitLen(n \div 2)

F32Zero == [m |-> 0, e |-> 0]
F32One == [m |-> 2^23, e |-> -23]

\* q is the 24-bit significand before rounding, rnd the first discarded bit,
\* sticky whether any later discarded bit is set.
F32Pack(q, rnd, sticky, e) ==
    LET up == rnd /\ (sticky \/ q % 2 = 1)
        q1 == IF up THEN q + 1 ELSE q
    IN IF q1 = 2^24 THEN [m |-> 2^23, e |-> e + 1] ELSE [m |-> q1, e |-> e]

\* `n as f32` for an unsigned integer n
F32FromU32(n) ==
    IF n = 0 THEN F32Zero
    ELSE LET bl == BitLen(n) IN
         IF bl <= 24 THEN [m |-> n * 2^(24 - bl), e |-> bl - 24]
         ELSE LET s == bl - 24
                  q == n \div 2^s
                  r == n % 2^s
              IN F32Pack(q, r >= 2^(s - 1), r % 2^(s - 1) # 0, s)

\* a * b : the 48-bit product of the significands is formed from 12-bit limbs
F32Mul(a, b) ==
    IF a.m = 0 \/ b.m = 0 THEN F32Zero
    ELSE LET a1 == a.m \div 4096
             a0 == a.m % 4096
             b1 == b.m \div 4096
             b0 == b.m % 4096
             t0 == a0 * b0
             t1 == a1 * b0 + a0 * b1
             t2 == a1 * b1
             low == t0 + (t1 % 4096) * 4096
             Lo == low % 2^24
             Hi == t2 + (t1 \div 4096) + (low \div 2^24)
         IN IF Hi >= 2^23
            THEN F32Pack(Hi, Lo >= 2^23, Lo % 2^23 # 0, a.e + b.e + 24)
            ELSE F32Pack(Hi * 2 + (Lo \div 2^23), (Lo \div 2^22) % 2 = 1,
                         Lo % 2^22 # 0, a.e + b.e + 23)

\* k further quotient bits of r / d by restoring division: <<quotient, remainder>>
RECURSIVE LongDiv(_, _, _, _)
LongDiv(q, r, d, k) ==
    IF k = 0 THEN <<q, r>>
    ELSE IF 2 * r >= d THEN LongDiv(2 * q + 1, 2 * r - d, d, k - 1)
         ELSE LongDiv(2 * q, 2 * r, d, k - 1)

\* a / b, b nonzero
F32Div(a, b) ==
    IF a.m = 0 THEN F32Zero
    ELSE LET k == IF a.m >= b.m THEN 24 ELSE 25
             qr == LongDiv(a.m \div b.m, a.m % b.m, b.m, k)
         IN F32Pack(qr[1] \div 2, qr[1] % 2 = 1, qr[2] # 0, a.e - b.e - k + 1)

\* a + b : two guard bits and a sticky bit below the larger operand
F32Add(a, b) ==
    IF a.m = 0 THEN b
    ELSE IF b.m = 0 THEN a
    ELSE LET hi == IF a.e >= b.e THEN a ELSE b
             lo == IF a.e >= b.e THEN b ELSE a
             d == hi.e - lo.e
         IN IF d > 25 THEN hi
            ELSE LET B == (lo.m * 4) \div 2^d
                     lost == (lo.m * 4) % 2^d # 0
                     S == hi.m * 4 + B
                 IN IF S >= 2^26
                    THEN F32Pack(S \div 8, (S \div 4) % 2 = 1,
                                 S % 4 # 0 \/ lost, hi.e + 1)
                    ELSE F32Pack(S \div 4, (S \div 2) % 2 = 1,
                                 S % 2 # 0 \/ lost, hi.e)

\* a - b for a >= b : three extra bits, the lost bits of b jammed into the last
F32Sub(a, b) ==
    IF b.m = 0 THEN a
    ELSE LET d == a.e - b.e
             B0 == IF d > 27 THEN 0 ELSE (b.m * 8) \div 2^d
             lost == IF d > 27 THEN TRUE ELSE (b.m * 8) % 2^d # 0
             B == IF lost /\ B0 % 2 = 0 THEN B0 + 1 ELSE B0
             D == a.m * 8 - B
             bl == BitLen(D)
         IN IF D = 0 THEN F32Zero
            ELSE IF bl <= 24 THEN [m |-> D * 2^(24 - bl), e |-> a.e - 3 - (24 - bl)]
            ELSE LET s == bl - 24
                     r == D % 2^s
                 IN F32Pack(D \div 2^s, r >= 2^(s - 1), r % 2^(s - 1) # 0,
                            a.e - 3 + s)

F32Lt(a, b) ==
    IF b.m = 0 THEN FALSE
    ELSE IF a.m = 0 THEN TRUE
    ELSE a.e < b.e \/ (a.e = b.e /\ a.m < b.m)

\* a.min(b)
F32Min(a, b) == IF F32Lt(b, a) THEN b ELSE a

\* `a as u32`: truncation toward zero
F32ToU32(a) ==
    IF a.m = 0 THEN 0
    ELSE IF a.e >= 0 THEN a.m * 2^(a.e)
    ELSE IF -a.e >= 24 THEN 0
    ELSE a.m \div 2^(-a.e)

(* ------------------------------------------------------------------ *)
(* overlay_logo: geometry                                              *)
(* ------------------------------------------------------------------ *)
\* 0.25f32
LOGO_MAX_SCALE_quarter == [m |-> 2^23, e |-> -25]

\* 0.20f32 = 0x3E4CCCCD = 13421773 * 2^-26
LOGO_MAX_SCALE == [m |-> 13421773, e |-> -26]

\* half the padding
padding_two == 4 \div 2

\* let padding = 4
padding == 4

\* a.saturating_sub(b) on u32
saturating_sub(a, b) == IF a >= b THEN a - b ELSE 0

\* max_logo_size of a canvas W x H
max_logo_size(W, H) == F32ToU32(F32Mul(F32FromU32(Min(W, H)), LOGO_MAX_SCALE))

\* the factor without the .min(1.0)
logo_scale_unclamped(W, H, lw, lh) ==
    IF Max(lw, lh) = 0 THEN F32One
    ELSE F32Div(F32FromU32(max_logo_size(W, H)), F32FromU32(Max(lw, lh)))

\* a zero divisor gives inf or NaN, and either .min(1.0) is 1.0
logo_scale(W, H, lw, lh) ==
    IF Max(lw, lh) = 0 THEN F32One
    ELSE
    F32Min(F32Div(F32FromU32(max_logo_size(W, H)), F32FromU32(Max(lw, lh))), F32One)

\* (side as f32 * scale) as u32
scaled_side(side, scale) == F32ToU32(F32Mul(F32FromU32(side), scale))

\* a loop end without the .min(limit)
loop_end_unclamped(start, len, limit) == start + len

\* (start + len).min(limit): exclusive end of a backing loop
loop_end(start, len, limit) == Min(start + len, limit)

\* The numbers overlay_logo derives from the canvas size W x H and the logo
\* size lw x lh.  fault: a u32 subtraction whose result would be negative.
\* bg_x_end / bg_y_end and logo_x_end / logo_y_end are the exclusive ends of
\* the coordinates the two loops write.
overlay_geometry(W, H, lw, lh) ==
    LET mls == max_logo_size(W, H)
        scale == logo_scale(W, H, lw, lh)
        new_width == scaled_side(lw, scale)
        new_height == scaled_side(lh, scale)
        fault == new_width > W \/ new_height > H
        x_offset == IF fault THEN 0 ELSE (W - new_width) \div 2
        y_offset == IF fault THEN 0 ELSE (H - new_height) \div 2
        bg_width == new_width + padding * 2
        bg_height == new_height + padding * 2
        bg_x == saturating_sub(x_offset, padding)
        bg_y == saturating_sub(y_offset, padding)
    IN [width |-> W, height |-> H,
        max_logo_size |-> mls, scale |-> scale,
        new_width |-> new_width, new_height |-> new_height,
        fault |-> fault,
        x_offset |-> x_offset, y_offset |-> y_offset,
        bg_width |-> bg_width, bg_height |-> bg_height,
        bg_x |-> bg_x, bg_y |-> bg_y,
        bg_x_end |-> loop_end(bg_x, bg_width, W),
        bg_y_end |-> loop_end(bg_y, bg_height, H),
        logo_x_end |-> Min(x_offset + new_width, W),
        logo_y_end |-> Min(y_offset + new_height, H)]

\* Rgba([r, g, b, a]): the four bytes of a pixel, held as one signed 32-bit word
Rgba(r, g, b, a) == (r - 128) * 2^24 + g * 2^16 + b * 2^8 + a

\* pixel[0] .. pixel[3]
Channel(pixel, i) ==
    CASE i = 0 -> (pixel \div 2^24) + 128
      [] i = 1 -> (pixel \div 2^16) % 256
      [] i = 2 -> (pixel \div 2^8) % 256
      [] OTHER -> pixel % 256

\* `x as u8` for a non-negative x: truncation, saturating at 255
F32ToU8(a) == IF a.m # 0 /\ a.e >= -15 THEN 255 ELSE Min(F32ToU32(a), 255)

\* one colour channel of the blended pixel:
\* ((1.0 - alpha) * bg as f32 + alpha * pixel as f32) as u8
blend_channel(alpha, bg, src) ==
    F32ToU8(F32Add(F32Mul(F32Sub(F32One, alpha), F32FromU32(bg)),
                   F32Mul(alpha, F32FromU32(src))))

\* pixel[3] as f32 / 255.0
pixel_alpha(a) == F32Div(F32FromU32(a), F32FromU32(255))

\* the pixel put at a destination holding bg for a logo pixel with nonzero alpha
blend_pixel(bg, pixel) ==
    LET alpha == pixel_alpha(Channel(pixel, 3))
    IN Rgba(blend_channel(alpha, Channel(bg, 0), Channel(pixel, 0)),
            blend_channel(alpha, Channel(bg, 1), Channel(pixel, 1)),
            blend_channel(alpha, Channel(bg, 2), Channel(pixel, 2)),
            255)

(* ------------------------------------------------------------------ *)
(* Bounds                                                              *)
(* ------------------------------------------------------------------ *)
\* canvas sides of the safe-area property
MinQrSide == 64
MaxQrSide == 2048
\* small canvases, taken in every width x height combination
MaxSmallSide == 12
\* largest symbol version a modelled content needs
MaxVersion == 2
\* number of requests
MaxCalls == 2

(* ------------------------------------------------------------------ *)
(* Results                                                             *)
(* ------------------------------------------------------------------ *)
Ok(v) == [ok |-> TRUE, val |-> v]
Err(prefix, detail) == [ok |-> FALSE, err |-> <<prefix, detail>>]

(* ------------------------------------------------------------------ *)
(* Matrix encoding and rasterization (QrGenerator::generate)           *)
(* ------------------------------------------------------------------ *)
\* A content is known by the symbol version it needs at level H;
\* version 0 stands for a content longer than any symbol holds.
Contents == [id : {1}, version : 0..MaxVersion]

\* an encoder that cuts a content down to what the largest symbol holds
with_error_correction_level_truncating(content) ==
    Ok([ec_level |-> "H", width |-> 17 + 4 * Max(content.version, 1),
        content |-> content])

\* QrCode::with_error_correction_level(content, EcLevel::H)
with_error_correction_level(content) ==
    IF content.version = 0
    THEN Err("Failed to create QR code", "data too long")
    ELSE Ok([ec_level |-> "H", width |-> 17 + 4 * content.version,
             content |-> content])

\* QR_SIZE values; -1 is a text that does not parse as u32
Sizes == {16, 64}

\* colour of module (mx, my) of the symbol; the pattern is the encoder's
is_dark(qr, mx, my) ==
    \/ (mx + 2 * my + qr.content.id) % 3 = 0
    \/ (mx * my + qr.content.version) % 5 = 0

Black == Rgba(0, 0, 0, 255)
White == Rgba(255, 255, 255, 255)

\* .min_dimensions(size, size): module size for an image at least size wide
min_dimensions(width_in_modules, size) ==
    Max((size + width_in_modules - 1) \div width_in_modules, 1)

\* .max_dimensions(size, size): module size for an image at most size wide
max_dimensions(width_in_modules, size) ==
    Max(size \div width_in_modules, 1)

\* qr.render().quiet_zone(true).min_dimensions(..).max_dimensions(..).build():
\* each call sets the module size, the last call is the one build() uses
render(qr, size) ==
    LET width_in_modules == qr.width + 2 * 4
        after_min == min_dimensions(width_in_modules, size)
        module_size == max_dimensions(width_in_modules, size)
        real_width == width_in_modules * module_size
    IN [width |-> real_width, height |-> real_width,
        px |-> [y \in 0..(real_width - 1) |-> [x \in 0..(real_width - 1) |->
                  LET mx == (x \div module_size) - 4
                      my == (y \div module_size) - 4
                  IN IF /\ 0 <= mx /\ mx < qr.width
                        /\ 0 <= my /\ my < qr.width
                        /\ is_dark(qr, mx, my)
                     THEN Black ELSE White]]]

\* the QrCode values: level H, 17 + 4 * version modules wide
Symbols ==
    [ec_level : {"H"}, width : {17 + 4 * v : v \in 1..MaxVersion},
     content : Contents]

\* render is a pure function of the symbol and the size: Rendered holds its
\* value for every symbol and size, computed once (f @@ f is f, written out
\* as a table of its values)
Rendered ==
    LET table == [qr \in Symbols, size \in Sizes |-> render(qr, size)]
    IN table @@ table

(* ------------------------------------------------------------------ *)
(* Logo loading (load_logo, load_svg_logo, load_raster_logo)           *)
(* ------------------------------------------------------------------ *)
\* A path is known by its extension and by what is on disk there:
\* "missing", "unreadable" (exists, cannot be read), "garbage" (neither a
\* bitmap nor SVG source), "raster" (a w x h bitmap, picture art) or "svg"
\* (SVG source of size w x h, picture art).
NoPath == [ext |-> "", disk |-> "none", w |-> 0, h |-> 0, art |-> "none"]

LogoPaths ==
    { [ext |-> "png", disk |-> "missing", w |-> 0, h |-> 0, art |-> "none"],
      [ext |-> "svg", disk |-> "unreadable", w |-> 0, h |-> 0, art |-> "none"],
      [ext |-> "svg", disk |-> "garbage", w |-> 0, h |-> 0, art |-> "none"],
      [ext |-> "png", disk |-> "garbage", w |-> 0, h |-> 0, art |-> "none"],
      [ext |-> "txt", disk |-> "raster", w |-> 3, h |-> 3, art |-> "glass"],
      [ext |-> "PNG", disk |-> "raster", w |-> 3, h |-> 3, art |-> "glass"],
      [ext |-> "jpeg", disk |-> "raster", w |-> 40, h |-> 40, art |-> "ink"] }

\* the file served when QR_BRANDING_LOGO is unset: assets/logo.svg
DefaultLogoFiles ==
    { [ext |-> "svg", disk |-> "missing", w |-> 0, h |-> 0, art |-> "none"],
      [ext |-> "svg", disk |-> "svg", w |-> 3, h |-> 6, art |-> "ink"] }

exists(path) == path.disk # "missing"

\* an extension compared as it is written
to_lowercase_not(ext) == ext

\* str::to_lowercase on the extensions of the model
to_lowercase(ext) ==
    CASE ext = "PNG" -> "png"
      [] ext = "SVG" -> "svg"
      [] ext = "Svg" -> "svg"
      [] ext = "JPG" -> "jpg"
      [] ext = "JPEG" -> "jpeg"
      [] OTHER -> ext

\* Option<RgbaImage>::None; a buffer is [id, width, height, art]
NoLogo == [id |-> 0, width |-> 0, height |-> 0, art |-> "none"]

\* pixel (x, y) of a loaded logo: "glass" has transparent, half-transparent
\* and opaque pixels, "frost" is white and a quarter opaque, "ink" is opaque
logo_pixel(logo, x, y) ==
    IF logo.art = "glass"
    THEN Rgba(200, (40 * x) % 256, 30, CASE (x + y) % 3 = 0 -> 0
                                         [] (x + y) % 3 = 1 -> 128
                                         [] OTHER -> 255)
    ELSE IF logo.art = "frost"
    THEN Rgba(255, 255, 255, 65)
    ELSE Rgba(10, 20, (50 * (x + y)) % 256, 255)

load_svg_logo(path) ==
    IF path.disk \in {"missing", "unreadable"}
    THEN Err("Failed to read SVG file", path.disk)
    ELSE IF path.disk # "svg"
    THEN Err("Failed to parse SVG", path.disk)
    ELSE LET width == path.w
             height == path.h
             longest == Max(width, height)
             scale == IF longest = 0 THEN F32Zero
                      ELSE F32Div(F32FromU32(200), F32FromU32(longest))
             scaled_width == F32ToU32(F32Mul(F32FromU32(width), scale))
             scaled_height == F32ToU32(F32Mul(F32FromU32(height), scale))
         IN IF scaled_width = 0 \/ scaled_height = 0
            THEN Err("Failed to create pixmap", "")
            ELSE Ok([id |-> 1, width |-> scaled_width, height |-> scaled_height,
                     art |-> path.art])

load_raster_logo(path) ==
    IF path.disk = "raster"
    THEN Ok([id |-> 1, width |-> path.w, height |-> path.h, art |-> path.art])
    ELSE Err("Failed to open logo image", path.disk)

load_logo(path) ==
    LET extension == to_lowercase(path.ext)
    IN IF extension = "svg" THEN load_svg_logo(path)
       ELSE IF extension \in {"png", "jpg", "jpeg"} THEN load_raster_logo(path)
       ELSE Err("Unsupported logo format", path.ext)

\* QrGenerator::new
QrGenerator_new(size, logo_path) ==
    IF logo_path = NoPath THEN Ok([size |-> size, logo |-> NoLogo])
    ELSE LET loaded == load_logo(logo_path)
         IN IF loaded.ok THEN Ok([size |-> size, logo |-> loaded.val])
            ELSE loaded

\* a clone that leaves the logo behind
QrGenerator_clone_without_logo(generator, fresh) ==
    [size |-> generator.size, logo |-> NoLogo]

\* #[derive(Clone)] on QrGenerator: the RgbaImage is cloned into a new buffer
QrGenerator_clone(generator, fresh) ==
    [size |-> generator.size,
     logo |-> IF generator.logo = NoLogo THEN NoLogo
              ELSE [generator.logo EXCEPT !.id = fresh]]

(* ------------------------------------------------------------------ *)
(* overlay_logo: pixels                                                *)
(* ------------------------------------------------------------------ *)
\* image::imageops::resize(logo, new_width, new_height, Lanczos3): equal
\* dimensions give a copy; otherwise every pixel is resampled from the source
\* (the kernel is the library's, the model samples the nearest source pixel)
resize(logo, new_width, new_height) ==
    [width |-> new_width, height |-> new_height,
     px |-> [y \in 0..(new_height - 1) |-> [x \in 0..(new_width - 1) |->
               IF new_width = logo.width /\ new_height = logo.height
               THEN logo_pixel(logo, x, y)
               ELSE logo_pixel(logo, (x * logo.width) \div new_width,
                                     (y * logo.height) \div new_height)]]]

\* a backing painted over the whole canvas
draw_background_everywhere(qr, g) ==
    [qr EXCEPT !.px = [y \in 0..(qr.height - 1) |-> [x \in 0..(qr.width - 1) |->
        White]]]

\* the image after the backing loop (lines 155-159)
draw_background(qr, g) ==
    [qr EXCEPT !.px = [y \in 0..(qr.height - 1) |-> [x \in 0..(qr.width - 1) |->
        IF /\ g.bg_x <= x /\ x < g.bg_x_end
           /\ g.bg_y <= y /\ y < g.bg_y_end
        THEN White ELSE qr.px[y][x]]]]

\* the image after the blending loop (lines 162-179)
blend_logo(qr, scaled_logo, g) ==
    [qr EXCEPT !.px = [y \in 0..(qr.height - 1) |-> [x \in 0..(qr.width - 1) |->
        IF /\ g.x_offset <= x /\ x < g.logo_x_end
           /\ g.y_offset <= y /\ y < g.logo_y_end
        THEN LET pixel == scaled_logo.px[y - g.y_offset][x - g.x_offset]
             IN IF Channel(pixel, 3) > 0 THEN blend_pixel(qr.px[y][x], pixel) ELSE qr.px[y][x]
        ELSE qr.px[y][x]]]]

overlay_logo(qr, logo) ==
    LET g == overlay_geometry(qr.width, qr.height, logo.width, logo.height)
    IN IF g.fault THEN Err("panic", "attempt to subtract with overflow")
       ELSE Ok(blend_logo(draw_background(qr, g),
                          resize(logo, g.new_width, g.new_height), g))

\* the buffers load_logo returns, and the empty one
Logos ==
    { load_logo(path).val :
        path \in {p \in LogoPaths \cup DefaultLogoFiles : load_logo(p).ok} }
    \cup {NoLogo}

\* overlay_logo is a pure function of the canvas and the logo's pixels:
\* Overlaid holds its value for every rendered canvas and every logo,
\* computed once
Overlaid ==
    [qr \in {Rendered[k] : k \in DOMAIN Rendered}, logo \in Logos |->
        overlay_logo(qr, logo)]

\* the buffer load_logo returned, of which logo is a clone
loaded_from(logo) == IF logo = NoLogo THEN logo ELSE [logo EXCEPT !.id = 1]

(* ------------------------------------------------------------------ *)
(* PNG encoding                                                        *)
(* ------------------------------------------------------------------ *)
\* an encoder that adds a chunk whose value advances from request to request
write_image_with_time(img) ==
    Ok([signature |-> <<137, 80, 78, 71>>,
        ihdr |-> [width |-> img.width, height |-> img.height,
                  color_type |-> "Rgba8"],
        time |-> next_buf,
        idat |-> img.px])

\* PngEncoder::write_image(img.as_raw(), width, height, Rgba8): the stream is
\* the signature, the header and the losslessly packed pixels; it fails when
\* the buffer does not hold width x height pixels; px[y][x] is pixel (x, y)
write_image(img) ==
    IF \E y \in DOMAIN img.px : DOMAIN img.px[y] # 0..(img.width - 1)
          \/ DOMAIN img.px # 0..(img.height - 1)
    THEN Err("Failed to encode PNG", "dimension mismatch")
    ELSE Ok([signature |-> <<137, 80, 78, 71>>,
             ihdr |-> [width |-> img.width, height |-> img.height,
                       color_type |-> "Rgba8"],
             idat |-> img.px])

\* map_err(|e| AppError::QrGeneration(e)) in QrService
QrGeneration(r) == IF r.ok THEN r ELSE [ok |-> FALSE, err |-> r.err, error |-> "QrGeneration"]

\* overlay entered whether or not a logo is held
has_logo_always(generator) == TRUE

\* if let Some(logo) = &self.logo
has_logo(generator) == generator.logo # NoLogo

\* QrGenerator::generate as one function of the engine and the content
generate(generator, content) ==
    LET qr == with_error_correction_level(content)
    IN IF ~qr.ok THEN qr
       ELSE LET qr_image == render(qr.val, generator.size)
                img == IF has_logo(generator)
                       THEN overlay_logo(qr_image, generator.logo)
                       ELSE Ok(qr_image)
            IN IF ~img.ok THEN img ELSE write_image(img.val)

\* QrService::generate_for_url
generate_for_url(service, url) == QrGeneration(generate(service.generator, url))

(* ------------------------------------------------------------------ *)
(* Config::from_env                                                    *)
(* ------------------------------------------------------------------ *)
Environments ==
    { [QR_BRANDING_LOGO |-> p, default_logo |-> d, QR_SIZE |-> s] :
        p \in LogoPaths \cup {NoPath}, d \in DefaultLogoFiles,
        s \in Sizes \cup {-1} }

\* the qr_branding_logo field: the variable, else assets/logo.svg when it
\* exists, and in both cases only a path that exists
qr_branding_logo(e) ==
    LET chosen == IF e.QR_BRANDING_LOGO # NoPath THEN e.QR_BRANDING_LOGO
                  ELSE IF exists(e.default_logo) THEN e.default_logo
                  ELSE NoPath
    IN IF chosen # NoPath /\ exists(chosen) THEN chosen ELSE NoPath

from_env(e) ==
    IF e.QR_SIZE < 0 THEN Err("Invalid QR size value", "")
    ELSE Ok([qr_size |-> e.QR_SIZE, qr_branding_logo |-> qr_branding_logo(e)])

(* ------------------------------------------------------------------ *)
(* The process                                                         *)
(* ------------------------------------------------------------------ *)
CallIds == 1..MaxCalls

IdleCall == [pc |-> "idle", content |-> Null, handle |-> Null, qr |-> Null,
             img |-> Null, result |-> Null]

OverlayIdle == [pc |-> "idle"]

\* no overlay followed loop by loop
PixelsIdle == px = [pc |-> "idle"]

\* no call of load_logo on its own
LoadIdle == ld = [pc |-> "idle"]

\* a limiter nobody calls
RateIdle == limiter = <<>> /\ checks = <<>> /\ instant = 0

\* a link service nobody calls
LinksIdle == links = {} /\ utc = 0 /\ ops = <<>>

Init ==
    /\ env \in Environments
    /\ env.QR_BRANDING_LOGO # NoPath => ~exists(env.default_logo)
    /\ main_pc = "from_env"
    /\ config = Null
    /\ qr_service = Null
    /\ exit_error = Null
    /\ next_buf = 2
    /\ calls = [c \in CallIds |-> IdleCall]
    /\ ov = OverlayIdle
    /\ PixelsIdle /\ LoadIdle /\ RateIdle /\ LinksIdle

\* main, lines 32-33: let config = Config::from_env()?
LoadConfig ==
    /\ main_pc = "from_env"
    /\ LET r == from_env(env)
       IN IF r.ok
          THEN /\ config' = r.val
               /\ main_pc' = "qr_service_new"
               /\ UNCHANGED exit_error
          ELSE /\ exit_error' = r
               /\ main_pc' = "exit"
               /\ UNCHANGED config
    /\ UNCHANGED <<env, qr_service, next_buf, calls, ov>>
    /\ UNCHANGED <<px, ld, rate_vars, link_vars>>

\* main, line 47: let qr_service = QrService::new(&config)?
QrService_new ==
    /\ main_pc = "qr_service_new"
    /\ LET r == QrGeneration(QrGenerator_new(config.qr_size, config.qr_branding_logo))
       IN IF r.ok
          THEN /\ qr_service' = [generator |-> r.val]
               /\ main_pc' = "serving"
               /\ UNCHANGED exit_error
          ELSE /\ exit_error' = r
               /\ main_pc' = "exit"
               /\ UNCHANGED qr_service
    /\ UNCHANGED <<env, config, next_buf, calls, ov>>
    /\ UNCHANGED <<px, ld, rate_vars, link_vars>>

\* a request reaches a handler: the State extractor clones AppState, and with
\* it QrService and QrGenerator, and the handler calls generate on the clone
Request(c, content) ==
    /\ main_pc = "serving"
    /\ calls[c].pc = "idle"
    /\ \A d \in CallIds : d < c => calls[d].pc # "idle"
    /\ calls' = [calls EXCEPT ![c] =
           [@ EXCEPT !.pc = "encode", !.content = content,
                     !.handle = QrGenerator_clone(qr_service.generator, next_buf)]]
    /\ next_buf' = next_buf + 1
    /\ UNCHANGED <<env, main_pc, config, qr_service, exit_error, ov>>
    /\ UNCHANGED <<px, ld, rate_vars, link_vars>>

\* a failed encoding replaced by the smallest symbol instead of an error
Encode_default(c) ==
    /\ calls[c].pc = "encode"
    /\ LET r == with_error_correction_level(calls[c].content)
       IN calls' = [calls EXCEPT ![c] =
              IF r.ok THEN [@ EXCEPT !.pc = "render", !.qr = r.val]
              ELSE [@ EXCEPT !.pc = "render",
                             !.qr = [ec_level |-> "H", width |-> 21,
                                     content |-> calls[c].content]]]
    /\ UNCHANGED <<env, main_pc, config, qr_service, exit_error, next_buf, ov>>
    /\ UNCHANGED <<px, ld, rate_vars, link_vars>>

\* generate, lines 32-33
Encode(c) ==
    /\ calls[c].pc = "encode"
    /\ LET r == with_error_correction_level(calls[c].content)
       IN calls' = [calls EXCEPT ![c] =
              IF r.ok THEN [@ EXCEPT !.pc = "render", !.qr = r.val]
              ELSE [@ EXCEPT !.pc = "done", !.result = QrGeneration(r)]]
    /\ UNCHANGED <<env, main_pc, config, qr_service, exit_error, next_buf, ov>>
    /\ UNCHANGED <<px, ld, rate_vars, link_vars>>

\* generate, lines 36-43
Render(c) ==
    /\ calls[c].pc = "render"
    /\ calls' = [calls EXCEPT ![c] =
           [@ EXCEPT !.pc = IF has_logo(calls[c].handle) THEN "overlay" ELSE "png",
                     !.img = Rendered[calls[c].qr, calls[c].handle.size]]]
    /\ UNCHANGED <<env, main_pc, config, qr_service, exit_error, next_buf, ov>>
    /\ UNCHANGED <<px, ld, rate_vars, link_vars>>

\* generate, lines 46-48
Overlay(c) ==
    /\ calls[c].pc = "overlay"
    /\ LET r == Overlaid[calls[c].img, loaded_from(calls[c].handle.logo)]
       IN calls' = [calls EXCEPT ![c] =
              IF r.ok THEN [@ EXCEPT !.pc = "png", !.img = r.val]
              ELSE [@ EXCEPT !.pc = "done", !.img = Null,
                             !.result = QrGeneration(r)]]
    /\ UNCHANGED <<env, main_pc, config, qr_service, exit_error, next_buf, ov>>
    /\ UNCHANGED <<px, ld, rate_vars, link_vars>>

\* generate, lines 51-62, and the return through QrService::generate_for_url
EncodePng(c) ==
    /\ calls[c].pc = "png"
    /\ calls' = [calls EXCEPT ![c] =
           [@ EXCEPT !.pc = "done", !.img = Null,
                     !.result = QrGeneration(write_image(calls[c].img))]]
    /\ UNCHANGED <<env, main_pc, config, qr_service, exit_error, next_buf, ov>>
    /\ UNCHANGED <<px, ld, rate_vars, link_vars>>

Next ==
    \/ LoadConfig
    \/ QrService_new
    \/ \E c \in CallIds, content \in Contents : Request(c, content)
    \/ \E c \in CallIds : Encode(c)
    \/ \E c \in CallIds : Render(c)
    \/ \E c \in CallIds : Overlay(c)
    \/ \E c \in CallIds : EncodePng(c)

Spec == Init /\ [][Next]_vars

(* ------------------------------------------------------------------ *)
(* overlay_logo called on its own, over every canvas and logo size     *)
(* ------------------------------------------------------------------ *)
LogoSides == {1, 2, 3, 13, 64, 200, 410, 3000}

OverlayInputs ==
    ({[W |-> s, H |-> s] : s \in MinQrSide..MaxQrSide}
       \cup [W : 1..MaxSmallSide, H : 1..MaxSmallSide])
    \X [lw : LogoSides, lh : LogoSides]

\* the process before main has run, serving no request
QrIdle ==
    /\ env = [QR_BRANDING_LOGO |-> NoPath,
              default_logo |-> CHOOSE d \in DefaultLogoFiles : ~exists(d),
              QR_SIZE |-> 64]
    /\ main_pc = "from_env"
    /\ config = Null
    /\ qr_service = Null
    /\ exit_error = Null
    /\ next_buf = 2
    /\ calls = [c \in CallIds |-> IdleCall]

InitOverlay ==
    /\ \E i \in OverlayInputs :
        ov = [pc |-> "call", W |-> i[1].W, H |-> i[1].H,
              lw |-> i[2].lw, lh |-> i[2].lh, out |-> Null]
    /\ QrIdle
    /\ PixelsIdle /\ LoadIdle /\ RateIdle /\ LinksIdle

\* one call of overlay_logo on a W x H canvas with a lw x lh logo
OverlayCall ==
    /\ ov.pc = "call"
    /\ ov' = [ov EXCEPT !.pc = "ret",
                        !.out = overlay_geometry(ov.W, ov.H, ov.lw, ov.lh)]
    /\ UNCHANGED <<qr_vars, px, ld, rate_vars, link_vars>>

NextOverlay == OverlayCall

SpecOverlay == InitOverlay /\ [][NextOverlay]_vars

(* ------------------------------------------------------------------ *)
(* overlay_logo followed loop by loop, on the rendered canvases        *)
(* ------------------------------------------------------------------ *)
\* the canvases generate passes to overlay_logo
PixelCanvases == {Rendered[k] : k \in DOMAIN Rendered}

\* the logos: those that load, a frosted square and a tall glass strip
PixelLogos ==
    (Logos \ {NoLogo})
    \cup { [id |-> 1, width |-> 4, height |-> 4, art |-> "frost"],
           [id |-> 1, width |-> 2, height |-> 6, art |-> "glass"] }

InitPixels ==
    /\ \E qr \in PixelCanvases, logo \in PixelLogos :
          px = [pc |-> "call", qr |-> qr, logo |-> logo, g |-> Null,
                scaled_logo |-> Null, img |-> qr]
    /\ ov = OverlayIdle
    /\ QrIdle /\ LoadIdle /\ RateIdle /\ LinksIdle

\* overlay_logo, lines 124-152: sizes, the resized logo, offsets
ScaleLogo ==
    /\ px.pc = "call"
    /\ LET g == overlay_geometry(px.qr.width, px.qr.height,
                                 px.logo.width, px.logo.height)
       IN px' = IF g.fault THEN [px EXCEPT !.pc = "panic", !.g = g]
                ELSE [px EXCEPT !.pc = "background", !.g = g,
                         !.scaled_logo = resize(px.logo, g.new_width,
                                                g.new_height)]
    /\ UNCHANGED <<qr_vars, ov, ld, rate_vars, link_vars>>

\* overlay_logo, lines 154-159: the backing loop
PaintBacking ==
    /\ px.pc = "background"
    /\ px' = [px EXCEPT !.pc = "blend", !.img = draw_background(px.img, px.g)]
    /\ UNCHANGED <<qr_vars, ov, ld, rate_vars, link_vars>>

\* overlay_logo, lines 161-181: the blending loop and the return
BlendLogo ==
    /\ px.pc = "blend"
    /\ px' = [px EXCEPT !.pc = "ret",
                        !.img = blend_logo(px.img, px.scaled_logo, px.g)]
    /\ UNCHANGED <<qr_vars, ov, ld, rate_vars, link_vars>>

NextPixels == ScaleLogo \/ PaintBacking \/ BlendLogo

SpecPixels == InitPixels /\ [][NextPixels]_vars

(* ------------------------------------------------------------------ *)
(* load_logo called on its own, over extensions and files              *)
(* ------------------------------------------------------------------ *)
\* extensions of the path, "" for a path without one
LoadExtensions ==
    {"", "svg", "SVG", "Svg", "png", "PNG", "jpg", "JPG", "jpeg", "JPEG",
     "txt", "gif"}

\* what is on disk at the path
LoadFiles ==
    { [disk |-> "missing", w |-> 0, h |-> 0, art |-> "none"],
      [disk |-> "unreadable", w |-> 0, h |-> 0, art |-> "none"],
      [disk |-> "garbage", w |-> 0, h |-> 0, art |-> "none"],
      [disk |-> "raster", w |-> 3, h |-> 3, art |-> "glass"],
      [disk |-> "svg", w |-> 3, h |-> 6, art |-> "ink"],
      [disk |-> "svg", w |-> 0, h |-> 0, art |-> "ink"] }

LoadPaths ==
    LogoPaths \cup DefaultLogoFiles
    \cup { [ext |-> e, disk |-> f.disk, w |-> f.w, h |-> f.h, art |-> f.art] :
             e \in LoadExtensions, f \in LoadFiles }

InitLoad ==
    /\ \E path \in LoadPaths :
          ld = [pc |-> "call", path |-> path, opened |-> FALSE, result |-> Null]
    /\ ov = OverlayIdle
    /\ QrIdle /\ PixelsIdle /\ RateIdle /\ LinksIdle

\* load_logo, lines 67-81: the match on the lowercased extension
LoadLogo ==
    /\ ld.pc = "call"
    /\ LET extension == to_lowercase(ld.path.ext)
       IN ld' = IF extension = "svg" THEN [ld EXCEPT !.pc = "svg"]
                ELSE IF extension \in {"png", "jpg", "jpeg"}
                THEN [ld EXCEPT !.pc = "raster"]
                ELSE [ld EXCEPT !.pc = "ret", !.result = load_logo(ld.path)]
    /\ UNCHANGED <<qr_vars, ov, px, rate_vars, link_vars>>

\* load_svg_logo: std::fs::read(path), then parse and render
LoadSvgLogo ==
    /\ ld.pc = "svg"
    /\ ld' = [ld EXCEPT !.pc = "ret", !.opened = TRUE,
                        !.result = load_svg_logo(ld.path)]
    /\ UNCHANGED <<qr_vars, ov, px, rate_vars, link_vars>>

\* load_raster_logo: image::open(path)
LoadRasterLogo ==
    /\ ld.pc = "raster"
    /\ ld' = [ld EXCEPT !.pc = "ret", !.opened = TRUE,
                        !.result = load_raster_logo(ld.path)]
    /\ UNCHANGED <<qr_vars, ov, px, rate_vars, link_vars>>

NextLoad == LoadLogo \/ LoadSvgLogo \/ LoadRasterLogo

SpecLoad == InitLoad /\ [][NextLoad]_vars

(* ------------------------------------------------------------------ *)
(* overlay_logo: its numbers over every canvas and logo size, and its  *)
(* loops on the rendered canvases                                      *)
(* ------------------------------------------------------------------ *)
InitBacking == InitOverlay \/ InitPixels

NextBacking == OverlayCall \/ ScaleLogo \/ PaintBacking \/ BlendLogo

SpecBacking == InitBacking /\ [][NextBacking]_vars

(* ------------------------------------------------------------------ *)
(* Properties                                                          *)
(* ------------------------------------------------------------------ *)
Started == {c \in CallIds : calls[c].pc # "idle"}
Done == {c \in CallIds : calls[c].pc = "done"}

\* C1: the image generate holds before PNG encoding is square with both
\* sides exactly the configured target size, with or without a logo.
C1_ExactTargetSize ==
    \A c \in CallIds :
        calls[c].pc \in {"overlay", "png"} =>
            /\ calls[c].img.width = calls[c].handle.size
            /\ calls[c].img.height = calls[c].handle.size

\* C2: on every canvas of side 64..2048 and for every logo size, the longer
\* side of the scaled logo is at most 20% of the shorter side of the canvas.
C2_SafeArea ==
    (/\ ov.pc = "ret"
     /\ ov.W \in MinQrSide..MaxQrSide
     /\ ov.H \in MinQrSide..MaxQrSide)
    => 5 * Max(ov.out.new_width, ov.out.new_height) <= Min(ov.W, ov.H)

\* a logo larger than the safe area scaled to exactly 20% of the canvas
C2_Witness ==
    /\ ov.pc = "ret"
    /\ ov.W \in MinQrSide..MaxQrSide
    /\ Max(ov.lw, ov.lh) > ov.out.max_logo_size
    /\ 5 * Max(ov.out.new_width, ov.out.new_height) = ov.W

\* C3: the logo is only shrunk: the factor is at most 1.0 and is the one
\* applied to both sides, neither side grows, and a logo already within the
\* safe area keeps its native size.
C3_OnlyShrunk ==
    ov.pc = "ret" =>
        /\ ~F32Lt(F32One, ov.out.scale)
        /\ ov.out.new_width = scaled_side(ov.lw, ov.out.scale)
        /\ ov.out.new_height = scaled_side(ov.lh, ov.out.scale)
        /\ ov.out.new_width <= ov.lw
        /\ ov.out.new_height <= ov.lh
        /\ Max(ov.lw, ov.lh) <= ov.out.max_logo_size =>
               /\ ov.out.new_width = ov.lw
               /\ ov.out.new_height = ov.lh

\* a logo inside the safe area of its canvas, returned at native size
C3_Witness ==
    /\ ov.pc = "ret"
    /\ ov.lw > 1
    /\ Max(ov.lw, ov.lh) <= ov.out.max_logo_size
    /\ ov.out.new_width = ov.lw

\* C4: an engine built with logo_path = None never enters the overlay step,
\* and the image it encodes is pixel for pixel the rasterization of the matrix.
C4_NoLogoIsRawRaster ==
    [][\A c \in CallIds :
          (/\ main_pc = "serving"
           /\ config.qr_branding_logo = NoPath
           /\ calls'[c].pc # calls[c].pc) =>
              LET qr_image == Rendered[calls'[c].qr, calls'[c].handle.size]
              IN /\ calls'[c].pc # "overlay"
                 /\ calls'[c].pc = "png" => calls'[c].img = qr_image
                 /\ (calls'[c].pc = "done" /\ calls'[c].result.ok) =>
                        /\ calls'[c].result.val.idat = qr_image.px
                        /\ calls'[c].result.val.ihdr.width = qr_image.width
                        /\ calls'[c].result.val.ihdr.height = qr_image.height
      ]_vars

\* a finished image of an engine without logo
C4_Witness ==
    /\ main_pc = "serving"
    /\ config.qr_branding_logo = NoPath
    /\ \E c \in Done : calls[c].result.ok

\* C5: for any logo and canvas size overlay_logo writes only inside the
\* canvas, no subtraction goes below zero, and the canvas keeps its size.
C5_Clipping ==
    ov.pc = "ret" =>
        /\ ~ov.out.fault
        /\ 0 <= ov.out.x_offset /\ 0 <= ov.out.y_offset
        /\ 0 <= ov.out.bg_x /\ ov.out.bg_x_end <= ov.W
        /\ 0 <= ov.out.bg_y /\ ov.out.bg_y_end <= ov.H
        /\ ov.out.logo_x_end <= ov.W
        /\ ov.out.logo_y_end <= ov.H
        /\ ov.out.width = ov.W
        /\ ov.out.height = ov.H

\* a logo larger than the canvas whose backing reaches past the canvas edge
C5_Witness ==
    /\ ov.pc = "ret"
    /\ ov.lw > ov.W /\ ov.lh > ov.H
    /\ ov.out.bg_x + ov.out.bg_width > ov.W

C7_FailFastLogo ==
    /\ (env.QR_BRANDING_LOGO # NoPath /\ ~load_logo(env.QR_BRANDING_LOGO).ok) =>
           (main_pc # "serving" /\ qr_service = Null)
    /\ \A c \in Done :
           ~calls[c].result.ok =>
               calls[c].result.err[1] \in {"Failed to create QR code",
                                           "Failed to encode PNG"}

LogoFailures ==
    {"Failed to read SVG file", "Failed to parse SVG", "Failed to create pixmap",
     "Failed to open logo image", "Unsupported logo format"}

\* C8: a content beyond the encoder's capacity makes generate fail with the
\* content-too-large failure, which no logo or PNG failure is mistaken for,
\* and nothing is rendered or returned.
C8_ContentTooLarge ==
    /\ \A c \in Done :
           /\ calls[c].content.version = 0 <=>
                  (/\ ~calls[c].result.ok
                   /\ calls[c].result.err[1] = "Failed to create QR code")
           /\ calls[c].content.version = 0 =>
                  /\ "val" \notin DOMAIN calls[c].result
                  /\ calls[c].qr = Null
                  /\ calls[c].img = Null
    /\ main_pc = "exit" => exit_error.err[1] # "Failed to create QR code"
    /\ "Failed to create QR code" \notin LogoFailures \cup {"Failed to encode PNG"}

\* a finished call whose content was too large
C8_Witness == \E c \in Done : calls[c].content.version = 0

StepOrder ==
    { <<"idle", "encode">>, <<"encode", "render">>, <<"encode", "done">>,
      <<"render", "overlay">>, <<"render", "png">>, <<"overlay", "png">>,
      <<"overlay", "done">>, <<"png", "done">> }

\* C9: generate runs encode (level H), rasterize, overlay (only with a logo),
\* PNG-encode in this order; a failing step ends the call with an error, no
\* later step runs, nothing is retried and no image stands in for the error.
C9_StepOrder ==
    [][\A c \in CallIds :
          LET a == calls[c]
              b == calls'[c]
          IN /\ a.pc # b.pc => <<a.pc, b.pc>> \in StepOrder
             /\ (a.pc = "encode" /\ b.pc = "render") => b.qr.ec_level = "H"
             /\ (a.pc = "encode" /\ a.content.version = 0) =>
                    (b.pc \in {"encode", "done"} /\ b.qr = Null /\ b.img = Null)
             /\ (a.pc = "render" /\ b.pc = "overlay") => a.handle.logo # NoLogo
             /\ (a.pc = "render" /\ b.pc = "png") => a.handle.logo = NoLogo
             /\ (a.pc \in {"encode", "overlay"} /\ b.pc = "done") =>
                    (~b.result.ok /\ "val" \notin DOMAIN b.result)
             /\ (a.pc = "png" /\ b.pc = "done") =>
                    (b.result.ok <=> write_image(a.img).ok)
             /\ a.pc = "done" => b = a
      ]_vars

\* one call ended by a failed step next to one that ran all four steps
C9_Witness ==
    \E c \in Done, d \in Done :
        /\ ~calls[c].result.ok
        /\ calls[d].result.ok
        /\ has_logo(calls[d].handle)

\* C10: calls share the one logo buffer loaded at construction and only read
\* it, and each call returns what it returns when run alone.
C10_SharedReadOnlyLogo ==
    main_pc = "serving" =>
        \A c \in Started :
            /\ calls[c].handle.logo = qr_service.generator.logo
            /\ calls[c].pc = "done" =>
                   calls[c].result = generate_for_url(qr_service, calls[c].content)

\* C11: once built, the engine's size and logo never change, whatever calls
\* run, succeed or fail; every handle a call works on has that size and the
\* pixels of that logo, and every image an engine with a logo returns is the
\* rasterization with that logo overlaid.
C11_ConfigFixed ==
    [][main_pc = "serving" =>
          /\ qr_service' = qr_service
          /\ config' = config
          /\ \A c \in CallIds :
                /\ calls[c].pc # "idle" => calls'[c].handle = calls[c].handle
                /\ calls'[c].pc # "idle" =>
                      /\ calls'[c].handle.size = qr_service.generator.size
                      /\ loaded_from(calls'[c].handle.logo) =
                             qr_service.generator.logo
                /\ (/\ calls[c].pc # "done"
                    /\ calls'[c].pc = "done"
                    /\ calls'[c].result.ok
                    /\ has_logo(qr_service.generator)) =>
                      calls'[c].result.val.idat =
                          Overlaid[Rendered[calls'[c].qr,
                                            qr_service.generator.size],
                                   qr_service.generator.logo].val.px
      ]_vars

\* an engine with a logo has returned an image after another call failed
C11_Witness ==
    /\ main_pc = "serving"
    /\ has_logo(qr_service.generator)
    /\ \E c1 \in Done, c2 \in Done :
          /\ ~calls[c1].result.ok
          /\ calls[c2].result.ok
          /\ calls[c2].result.val.idat # Rendered[calls[c2].qr,
                                                  qr_service.generator.size].px

(* ------------------------------------------------------------------ *)
(* RateLimiter (src/rate_limit.rs)                                     *)
(* ------------------------------------------------------------------ *)
\* an Instant is a whole number of ticks; a second has TicksPerSecond ticks
TicksPerSecond == 2
MaxLate == 0
MaxChecks == 2

\* the values of RATE_LIMIT_PER_MINUTE
Limits == {0, 1, 2}

\* Duration::from_secs(secs)
from_secs(secs) == secs * TicksPerSecond

\* seconds counted from their first tick
as_secs_rounded_up(duration) ==
    (duration + TicksPerSecond - 1) \div TicksPerSecond

\* Duration::as_secs(): the whole seconds
as_secs(duration) == duration \div TicksPerSecond

\* Instant::duration_since(earlier): zero when earlier is later than self
duration_since(self, earlier) == Max(self - earlier, 0)

\* the instants the clock shows: the start, and from a tick before the end
\* of the window that starts there to MaxLate ticks after it
Instants == {0} \cup ((from_secs(60) - 1)..(from_secs(60) + MaxLate))

Ips == {"127.0.0.1", "192.168.1.1"}

CheckIds == 1..MaxChecks

\* a HashMap key without entry
NoEntry == [vacant |-> TRUE]

\* RateLimiter::new(limit_per_minute)
RateLimiter_new(limit_per_minute) ==
    [limit |-> limit_per_minute, window |-> from_secs(60),
     state |-> [ip \in Ips |-> NoEntry]]

\* every request keyed by one address
entry_key_shared(ip) == "127.0.0.1"

\* state.entry(ip): the key is the caller's address
entry_key(ip) == ip

\* now.duration_since(entry.1) >= self.window
window_over(self, now, window_start) ==
    duration_since(now, window_start) >= self.window

\* a limit that admits one request more
over_limit_lenient(self, count) == count > self.limit

\* entry.0 >= self.limit
over_limit(self, count) == count >= self.limit

\* the body of check under the write lock (lines 35-52): the new map and
\* what is returned; a subtraction below zero panics or wraps with the build
check(self, ip, now, build) ==
    LET key == entry_key(ip)
        inserted == IF self.state[key] = NoEntry
                    THEN [count |-> 0, window_start |-> now]
                    ELSE self.state[key]
        entry == IF window_over(self, now, inserted.window_start)
                 THEN [count |-> 0, window_start |-> now]
                 ELSE inserted
        elapsed == as_secs(duration_since(now, entry.window_start))
        retry_after == as_secs(self.window) - elapsed
        counted == [entry EXCEPT !.count = @ + 1]
        remaining == self.limit - counted.count
    IN IF over_limit(self, entry.count)
       THEN IF retry_after < 0
            THEN IF build = "debug"
                 THEN [state |-> [self.state EXCEPT ![key] = entry],
                       panic |-> TRUE, result |-> Null]
                 ELSE [state |-> [self.state EXCEPT ![key] = entry],
                       panic |-> FALSE,
                       result |-> Err("retry_after", retry_after + 2^31)]
            ELSE [state |-> [self.state EXCEPT ![key] = entry],
                  panic |-> FALSE,
                  result |-> Err("retry_after", Max(retry_after, 1))]
       ELSE IF remaining < 0
            THEN IF build = "debug"
                 THEN [state |-> [self.state EXCEPT ![key] = counted],
                       panic |-> TRUE, result |-> Null]
                 ELSE [state |-> [self.state EXCEPT ![key] = counted],
                       panic |-> FALSE, result |-> Ok(remaining + 2^31)]
            ELSE [state |-> [self.state EXCEPT ![key] = counted],
                  panic |-> FALSE, result |-> Ok(remaining)]

IdleCheck == [pc |-> "idle", ip |-> Null, now |-> Null, result |-> Null]

InitRate ==
    /\ \E limit \in Limits : limiter = RateLimiter_new(limit)
    /\ checks = [c \in CheckIds |-> IdleCheck]
    /\ instant = 0
    /\ ov = OverlayIdle
    /\ QrIdle /\ PixelsIdle /\ LoadIdle /\ LinksIdle

\* the monotonic clock moves on
Tick ==
    /\ \E later \in Instants : later > instant /\ instant' = later
    /\ UNCHANGED <<limiter, checks>>
    /\ UNCHANGED <<qr_vars, ov, px, ld, link_vars>>

\* check, line 32: let now = Instant::now(), then the wait for the lock
CheckNow(c, ip) ==
    /\ checks[c].pc = "idle"
    /\ \A d \in CheckIds : d < c => checks[d].pc # "idle"
    /\ checks' = [checks EXCEPT ![c] = [pc |-> "lock", ip |-> ip,
                                         now |-> instant, result |-> Null]]
    /\ UNCHANGED <<limiter, instant>>
    /\ UNCHANGED <<qr_vars, ov, px, ld, link_vars>>

\* check, lines 33-53: the write lock is held from here to the return
CheckLocked(c) ==
    /\ checks[c].pc = "lock"
    /\ \E build \in {"debug", "release"} :
          LET r == check(limiter, checks[c].ip, checks[c].now, build)
          IN /\ limiter' = [limiter EXCEPT !.state = r.state]
             /\ checks' = [checks EXCEPT ![c] =
                    [IdleCheck EXCEPT !.pc = IF r.panic THEN "panic" ELSE "done",
                                      !.result = r.result]]
    /\ UNCHANGED instant
    /\ UNCHANGED <<qr_vars, ov, px, ld, link_vars>>

\* the handler goes on with the result; the task serves another request
CheckReturn(c) ==
    /\ checks[c].pc = "done"
    /\ checks' = [checks EXCEPT ![c] = IdleCheck]
    /\ UNCHANGED <<limiter, instant>>
    /\ UNCHANGED <<qr_vars, ov, px, ld, link_vars>>

NextRate ==
    \/ Tick
    \/ \E c \in CheckIds, ip \in Ips : CheckNow(c, ip)
    \/ \E c \in CheckIds : CheckLocked(c)
    \/ \E c \in CheckIds : CheckReturn(c)

SpecRate == InitRate /\ [][NextRate]_vars

(* ------------------------------------------------------------------ *)
(* Links: domain/link.rs, domain/ttl.rs, repository/link_repository.rs, *)
(* service/link_service.rs                                             *)
(* ------------------------------------------------------------------ *)
\* a DateTime<Utc> is [secs, micros]: whole seconds since the day the model
\* starts and the millionths of the second after them
DateTime(days, secs, micros) == [secs |-> days * 86400 + secs, micros |-> micros]

\* now >= exp, now < exp on DateTime<Utc>
dt_ge(a, b) == a.secs > b.secs \/ (a.secs = b.secs /\ a.micros >= b.micros)
dt_lt(a, b) == ~dt_ge(a, b)

\* now + Duration::days(days)
plus_days(now, days) == [now EXCEPT !.secs = @ + days * 86400]

\* n written with width decimal digits (character codes)
Digits(n, width) ==
    [i \in 1..width |-> 48 + ((n \div (10 ^ (width - i))) % 10)]

\* DateTime::to_rfc3339(): date, "T", hh:mm:ss, the fraction when it is not
\* zero, with 3 digits when it is whole milliseconds and 6 otherwise, and
\* "+00:00"; the date is written as the day's number, which like the
\* calendar date has a fixed width and is ordered as the days are
to_rfc3339(dt) ==
    LET days == dt.secs \div 86400
        hh == (dt.secs % 86400) \div 3600
        mm == (dt.secs % 3600) \div 60
        ss == dt.secs % 60
        fraction == IF dt.micros = 0 THEN <<>>
                    ELSE IF dt.micros % 1000 = 0
                    THEN <<46>> \o Digits(dt.micros \div 1000, 3)
                    ELSE <<46>> \o Digits(dt.micros, 6)
    IN Digits(days, 5) \o <<84>> \o Digits(hh, 2) \o <<58>> \o Digits(mm, 2)
       \o <<58>> \o Digits(ss, 2) \o fraction \o <<43, 48, 48, 58, 48, 48>>

\* the number written by the digits text[from..to]
Number(text, from, to) ==
    LET value[i \in (from - 1)..to] ==
            IF i < from THEN 0 ELSE 10 * value[i - 1] + (text[i] - 48)
    IN value[to]

\* DateTime::parse_from_rfc3339(text).with_timezone(&Utc)
parse_from_rfc3339(text) ==
    LET days == Number(text, 1, 5)
        hh == Number(text, 7, 8)
        mm == Number(text, 10, 11)
        ss == Number(text, 13, 14)
        digits == IF text[15] = 46 THEN Len(text) - 6 - 15 ELSE 0
        micros == IF digits = 0 THEN 0
                  ELSE Number(text, 16, 15 + digits) * (10 ^ (6 - digits))
    IN [secs |-> days * 86400 + hh * 3600 + mm * 60 + ss, micros |-> micros]

\* a < b on TEXT values in SQLite: byte by byte, a proper prefix is less
text_lt(a, b) ==
    LET n == Min(Len(a), Len(b))
        differ == {i \in 1..n : a[i] # b[i]}
    IN IF differ = {} THEN Len(a) < Len(b)
       ELSE LET i == CHOOSE j \in differ : \A k \in differ : j <= k
            IN a[i] < b[i]

\* Option::None of a DateTime, a Link or a Ttl
None == [none |-> TRUE]

\* SQL NULL in a TEXT column
NULL == <<>>

\* Ttl::expires_at(now); Duration::weeks(1) is 7 days
Ttl_expires_at_calendar(ttl, now) ==
    CASE ttl = "OneWeek" -> plus_days(now, 7)
      [] ttl = "OneMonth" -> plus_days(now, 31)
      [] ttl = "OneYear" -> plus_days(now, 366)
      [] OTHER -> None
Ttl_expires_at(ttl, now) ==
    CASE ttl = "OneWeek" -> plus_days(now, 7)
      [] ttl = "OneMonth" -> plus_days(now, 30)
      [] ttl = "OneYear" -> plus_days(now, 365)
      [] OTHER -> None

\* Link::is_expired(now)
is_expired_after(link, now) ==
    IF link.expires_at = None THEN FALSE ELSE dt_lt(link.expires_at, now)
is_expired(link, now) ==
    IF link.expires_at = None THEN FALSE ELSE dt_ge(now, link.expires_at)

\* LinkResponse::from_link(link, base_url) with the default BASE_URL; the
\* short URL is the base, "/" and the code
LinkResponse_from_link(link) ==
    [id |-> link.id, short_code |-> link.short_code,
     short_url |-> <<"http://localhost:8080", "/", link.short_code>>,
     target_url |-> link.target_url,
     created_at |-> link.created_at, expires_at |-> link.expires_at]

\* LinkRepository::row_to_link
row_to_link(row) ==
    [id |-> row.id, short_code |-> row.short_code,
     target_url |-> row.target_url,
     created_at |-> parse_from_rfc3339(row.created_at),
     expires_at |-> IF row.expires_at = NULL THEN None
                    ELSE parse_from_rfc3339(row.expires_at)]

\* the row LinkRepository::create binds: the times as RFC 3339 text
link_to_row(link) ==
    [id |-> link.id, short_code |-> link.short_code,
     target_url |-> link.target_url,
     created_at |-> to_rfc3339(link.created_at),
     expires_at |-> IF link.expires_at = None THEN NULL
                    ELSE to_rfc3339(link.expires_at)]

\* the INSERT of LinkRepository::create: the table keeps id and short_code
\* unique, and a UNIQUE failure is reported as ShortCodeExhausted; any other
\* failure of the statement (executes is FALSE) is reported as Database
repo_create(table, link, executes) ==
    IF ~executes
    THEN [table |-> table, result |-> Err("Database", "")]
    ELSE IF \E row \in table : row.id = link.id \/ row.short_code = link.short_code
    THEN [table |-> table, result |-> Err("ShortCodeExhausted", "")]
    ELSE [table |-> table \cup {link_to_row(link)}, result |-> Ok(link)]

\* LinkRepository::find_by_short_code
find_by_short_code(table, code) ==
    IF \E row \in table : row.short_code = code
    THEN row_to_link(CHOOSE row \in table : row.short_code = code)
    ELSE None

\* LinkRepository::list_all: every row, ORDER BY created_at DESC; rows with
\* equal created_at come in any order
list_all(table) ==
    LET n == Cardinality(table)
        orders == {o \in [1..n -> table] :
                      /\ \A i, j \in 1..n : i # j => o[i] # o[j]
                      /\ \A i \in 1..(n - 1) :
                            ~text_lt(o[i].created_at, o[i + 1].created_at)}
    IN {[i \in 1..n |-> row_to_link(o[i])] : o \in orders}

\* LinkRepository::delete: DELETE FROM links WHERE id = ?
matches_any_id(row, id) == TRUE
matches_id(row, id) == row.id = id
repo_delete(table, id) ==
    LET deleted == {row \in table : matches_id(row, id)}
    IN [table |-> table \ deleted, result |-> deleted # {}]

\* LinkRepository::delete_expired at the instant now:
\* DELETE FROM links WHERE expires_at IS NOT NULL AND expires_at < ?
expired_or_due(row, now_text) ==
    row.expires_at # NULL /\ ~text_lt(now_text, row.expires_at)
expired_row(row, now_text) ==
    row.expires_at # NULL /\ text_lt(row.expires_at, now_text)
delete_expired(table, now) ==
    LET deleted == {row \in table : expired_row(row, to_rfc3339(now))}
    IN [table |-> table \ deleted, result |-> Cardinality(deleted)]

\* one turn more than the loop has
MAX_RETRIES_six == 5 + 1

\* const MAX_RETRIES: usize = 5
MAX_RETRIES == 5

\* Url::parse(target_url) succeeds
Url_parse_ok(url) == url \in {"https://example.com", "https://example.com/"}

\* the Url parsed from url, as its to_string() writes it: a URL without a
\* path gets the path "/"
Url_parse(url) ==
    IF url = "https://example.com" THEN "https://example.com/" ELSE url

\* the inputs of the model: ids Uuid::new_v4() may draw, codes
\* ShortCode::generate() may draw, target URLs, TTL choices ("None" is a
\* request without a TTL)
Ids == {"uuid-1", "uuid-2"}
Codes == {"abcdefg", "hjkmnpq"}
Urls == {"https://example.com", "not-a-valid-url"}
Ttls == {"None", "OneWeek", "OneMonth", "OneYear", "Never"}

\* the instants the clock shows: three within the first second, whose texts
\* have no fraction, a 3-digit and a 6-digit one, and the same a week later
Starts == {DateTime(0, 0, 0), DateTime(0, 0, 500000), DateTime(0, 0, 500001)}
UtcInstants == Starts \cup {plus_days(t, 7) : t \in Starts}

\* the callers of the link service: its calls are taken one after another
Callers == {1}
IdleOp == [pc |-> "idle"]
ReturnOp(op, arg, result) ==
    [pc |-> "done", op |-> op, arg |-> arg, result |-> result]

InitLinks ==
    /\ QrIdle /\ ov = OverlayIdle /\ PixelsIdle /\ LoadIdle /\ RateIdle
    /\ links = {}
    /\ utc = DateTime(0, 0, 0)
    /\ ops = [c \in Callers |-> IdleOp]

\* time passes: Utc::now() shows a later instant
UtcAdvance ==
    /\ \E t \in UtcInstants : dt_lt(utc, t) /\ utc' = t
    /\ UNCHANGED <<qr_vars, ov, px, ld, rate_vars, links, ops>>

\* LinkService::create_link up to the retry loop (link_service.rs:30-33)
CreateLink(c, url, ttl) ==
    /\ ops[c].pc = "idle"
    /\ ops' = [ops EXCEPT ![c] =
                  IF ~Url_parse_ok(url)
                  THEN ReturnOp("create_link", <<url, ttl>>, Err("InvalidUrl", url))
                  ELSE [pc |-> "insert", op |-> "create_link",
                        arg |-> <<url, ttl>>, now |-> utc,
                        expires_at |-> IF ttl = "None" THEN None
                                       ELSE Ttl_expires_at(ttl, utc),
                        attempts |-> 0]]
    /\ UNCHANGED <<qr_vars, ov, px, ld, rate_vars, links, utc>>

\* one turn of the retry loop (link_service.rs:35-46)
CreateAttempt(c) ==
    /\ ops[c].pc = "insert"
    /\ \E id \in Ids, code \in Codes, executes \in BOOLEAN :
          LET link == [id |-> id, short_code |-> code,
                       target_url |-> Url_parse(ops[c].arg[1]),
                       created_at |-> ops[c].now,
                       expires_at |-> ops[c].expires_at]
              r == repo_create(links, link, executes)
          IN /\ links' = r.table
             /\ ops' = [ops EXCEPT ![c] =
                   IF r.result.ok
                   THEN ReturnOp("create_link", ops[c].arg,
                                 Ok(LinkResponse_from_link(r.result.val)))
                   ELSE IF r.result.err[1] # "ShortCodeExhausted"
                   THEN ReturnOp("create_link", ops[c].arg, r.result)
                   ELSE IF ops[c].attempts + 1 < MAX_RETRIES
                   THEN [ops[c] EXCEPT !.attempts = @ + 1]
                   ELSE ReturnOp("create_link", ops[c].arg,
                                 Err("ShortCodeExhausted", ""))]
    /\ UNCHANGED <<qr_vars, ov, px, ld, rate_vars, utc>>

\* LinkService::resolve: the lookup (link_service.rs:54-58)
Resolve(c, code) ==
    /\ ops[c].pc = "idle"
    /\ LET found == find_by_short_code(links, code)
       IN ops' = [ops EXCEPT ![c] =
                    IF found = None
                    THEN ReturnOp("resolve", code, Err("LinkNotFound", ""))
                    ELSE [pc |-> "expiry", op |-> "resolve", arg |-> code,
                          link |-> found]]
    /\ UNCHANGED <<qr_vars, ov, px, ld, rate_vars, links, utc>>

\* LinkService::resolve: the expiry test (link_service.rs:60-64)
ResolveExpiry(c) ==
    /\ ops[c].pc = "expiry"
    /\ ops' = [ops EXCEPT ![c] =
                  ReturnOp("resolve", ops[c].arg,
                           IF is_expired(ops[c].link, utc)
                           THEN Err("LinkExpired", "")
                           ELSE Ok(ops[c].link))]
    /\ UNCHANGED <<qr_vars, ov, px, ld, rate_vars, links, utc>>

\* LinkService::list_all
ListAll(c) ==
    /\ ops[c].pc = "idle"
    /\ \E listed \in list_all(links) :
          ops' = [ops EXCEPT ![c] =
                    ReturnOp("list_all", None,
                             Ok([i \in DOMAIN listed |->
                                    LinkResponse_from_link(listed[i])]))]
    /\ UNCHANGED <<qr_vars, ov, px, ld, rate_vars, links, utc>>

\* LinkService::delete_link
DeleteLink(c, id) ==
    /\ ops[c].pc = "idle"
    /\ LET r == repo_delete(links, id)
       IN /\ links' = r.table
          /\ ops' = [ops EXCEPT ![c] =
                ReturnOp("delete_link", id,
                         IF r.result THEN Ok(None) ELSE Err("LinkNotFound", ""))]
    /\ UNCHANGED <<qr_vars, ov, px, ld, rate_vars, utc>>

\* LinkService::cleanup_expired
CleanupExpired(c) ==
    /\ ops[c].pc = "idle"
    /\ LET r == delete_expired(links, utc)
       IN /\ links' = r.table
          /\ ops' = [ops EXCEPT ![c] =
                ReturnOp("cleanup_expired", None, Ok(r.result))]
    /\ UNCHANGED <<qr_vars, ov, px, ld, rate_vars, utc>>

\* the caller takes the result
LinkReturn(c) ==
    /\ ops[c].pc = "done"
    /\ ops' = [ops EXCEPT ![c] = IdleOp]
    /\ UNCHANGED <<qr_vars, ov, px, ld, rate_vars, links, utc>>

NextLinks ==
    \/ UtcAdvance
    \/ \E c \in Callers, url \in Urls, ttl \in Ttls : CreateLink(c, url, ttl)
    \/ \E c \in Callers : CreateAttempt(c)
    \/ \E c \in Callers, code \in Codes : Resolve(c, code)
    \/ \E c \in Callers : ResolveExpiry(c)
    \/ \E c \in Callers : ListAll(c)
    \/ \E c \in Callers, id \in Ids : DeleteLink(c, id)
    \/ \E c \in Callers : CleanupExpired(c)
    \/ \E c \in Callers : LinkReturn(c)

SpecLinks == InitLinks /\ [][NextLinks]_vars

(* ------------------------------------------------------------------ *)
(* create_link called by two requests at a time                        *)
(* ------------------------------------------------------------------ *)
\* two handlers in create_link or delete_link at once
Creators == {1, 2}

InitCreate ==
    /\ QrIdle /\ ov = OverlayIdle /\ PixelsIdle /\ LoadIdle /\ RateIdle
    /\ links = {}
    /\ utc = DateTime(0, 0, 0)
    /\ ops = [c \in Creators |-> IdleOp]

NextCreate ==
    \/ \E c \in Creators, url \in Urls, ttl \in {"None", "OneWeek"} :
          CreateLink(c, url, ttl)
    \/ \E c \in Creators : CreateAttempt(c)
    \/ \E c \in Creators, id \in Ids : DeleteLink(c, id)
    \/ \E c \in Creators : LinkReturn(c)

\* a call in the retry loop is polled until it returns: the runtime runs the
\* handler's task and the database answers every INSERT
SpecCreate ==
    /\ InitCreate /\ [][NextCreate]_vars
    /\ \A c \in Creators : WF_vars(CreateAttempt(c))

\* the backing rectangle: the scaled logo's footprint and padding around it
InBacking(g, x, y) ==
    /\ g.bg_x <= x /\ x < g.bg_x + g.bg_width
    /\ g.bg_y <= y /\ y < g.bg_y + g.bg_height

\* the scaled logo's footprint
InFootprint(g, x, y) ==
    /\ g.x_offset <= x /\ x < g.x_offset + g.new_width
    /\ g.y_offset <= y /\ y < g.y_offset + g.new_height

\* C12: overlay_logo changes only the centre: each loop writes only inside
\* the backing rectangle (the blending loop only inside the logo's footprint,
\* which lies in the rectangle), the rectangle is at most a fifth of the
\* side plus the padding, and outside it every pixel is the pixel of the
\* rasterization without logo; the canvas keeps its size.
C12_OnlyCentreChanges ==
    [][px'.pc \in {"blend", "ret"} =>
          LET g == px'.g
              W == px.qr.width
              H == px.qr.height
          IN /\ px'.img.width = W /\ px'.img.height = H
             /\ DOMAIN px'.img.px = 0..(H - 1)
             /\ 5 * (g.bg_width - 2 * padding) <= W
             /\ 5 * (g.bg_height - 2 * padding) <= H
             /\ \A y \in 0..(H - 1) :
                   /\ DOMAIN px'.img.px[y] = 0..(W - 1)
                   /\ \A x \in 0..(W - 1) :
                         /\ InFootprint(g, x, y) => InBacking(g, x, y)
                         /\ ~InBacking(g, x, y) =>
                                px'.img.px[y][x] = px.qr.px[y][x]
                         /\ px'.img.px[y][x] # px.img.px[y][x] =>
                                /\ InBacking(g, x, y)
                                /\ px'.pc = "ret" => InFootprint(g, x, y)
      ]_vars

\* an overlay has returned: the centre differs from the rasterization, a
\* logo pixel was written, and there are pixels outside the rectangle
C12_Witness ==
    /\ px.pc = "ret"
    /\ \E y \in 0..(px.qr.height - 1), x \in 0..(px.qr.width - 1) :
          /\ InFootprint(px.g, x, y)
          /\ px.img.px[y][x] # px.qr.px[y][x]
          /\ px.img.px[y][x] # White
    /\ ~InBacking(px.g, 0, 0)

\* C20: in the blending loop a logo pixel with alpha 0 leaves its destination
\* untouched; one with alpha a > 0 writes, on the white backing already
\* there, an opaque pixel whose channels are (1-a/255)*dst + (a/255)*src cut
\* to a whole number, hence between dst and src; after the overlay every
\* pixel of the image is opaque.
C20_AlphaCompositing ==
    [][(px.pc = "blend" /\ px'.pc = "ret") =>
          /\ \A ly \in 0..(px.g.new_height - 1), lx \in 0..(px.g.new_width - 1) :
                LET qx == px.g.x_offset + lx
                    qy == px.g.y_offset + ly
                    src == px.scaled_logo.px[ly][lx]
                    alpha == Channel(src, 3)
                IN (qx < px.qr.width /\ qy < px.qr.height) =>
                      LET dst == px.img.px[qy][qx]
                          out == px'.img.px[qy][qx]
                      IN IF alpha = 0 THEN out = dst
                         ELSE /\ dst = White
                              /\ Channel(out, 3) = 255
                              /\ \A i \in 0..2 :
                                    LET d == Channel(dst, i)
                                        s == Channel(src, i)
                                        exact == (255 - alpha) * d + alpha * s
                                    IN /\ Min(d, s) <= Channel(out, i)
                                       /\ Channel(out, i) <= Max(d, s)
                                       /\ 255 * Channel(out, i) <= exact
                                       /\ exact < 255 * (Channel(out, i) + 1)
          /\ \A y \in 0..(px.qr.height - 1), x \in 0..(px.qr.width - 1) :
                Channel(px'.img.px[y][x], 3) = 255
      ]_vars

\* the calls of check that take the lock, run and return in this step
Checking == {c \in CheckIds : checks[c].pc = "lock" /\ checks'[c].pc # "lock"}

\* C13: for one IP within one 60-second window of a limiter of limit L,
\* exactly the first L checks return Ok, the k-th with remaining L - k, and
\* every further check returns Err; a check starts a new window exactly when
\* 60 seconds have passed since the window's start; no count exceeds L.
C13_FirstLAllowed ==
    [][\A c \in Checking :
          LET ip == checks[c].ip
              now == checks[c].now
              L == limiter.limit
              before == limiter.state[ip]
              after == limiter'.state[ip]
              res == checks'[c].result
              fresh == before = NoEntry
                          \/ now - before.window_start >= 60 * TicksPerSecond
              k == IF fresh THEN 1 ELSE before.count + 1
          IN /\ checks'[c].pc = "done"
             /\ after # NoEntry
             /\ after.window_start = IF fresh THEN now ELSE before.window_start
             /\ IF k <= L
                THEN res = Ok(L - k) /\ after.count = k
                ELSE ~res.ok /\ after.count = k - 1
             /\ \A i \in Ips :
                   limiter'.state[i] # NoEntry => limiter'.state[i].count <= L
      ]_vars

\* the limit of 2 is used up and a further check was refused
C13_Witness ==
    /\ limiter.limit = 2
    /\ \E c \in CheckIds : checks[c].pc = "done" /\ ~checks[c].result.ok
    /\ \E ip \in Ips :
          limiter.state[ip] # NoEntry /\ limiter.state[ip].count = 2

\* C14: a check for one IP leaves the count and window start of every other
\* IP as they are, and it is refused only when its own IP's count has
\* reached the limit.
C14_PerIpIndependent ==
    [][\A c \in Checking :
          LET ip == checks[c].ip
          IN /\ \A other \in Ips \ {ip} :
                   limiter'.state[other] = limiter.state[other]
             /\ (checks'[c].pc = "done" /\ ~checks'[c].result.ok) =>
                   /\ limiter'.state[ip] # NoEntry
                   /\ limiter'.state[ip].count >= limiter.limit
      ]_vars

\* one IP's limit is used up and refused, another IP's first check is let in
C14_Witness ==
    /\ limiter.limit > 0
    /\ \E ip1 \in Ips, ip2 \in Ips, c1 \in CheckIds, c2 \in CheckIds :
          /\ ip1 # ip2
          /\ limiter.state[ip1] # NoEntry /\ limiter.state[ip2] # NoEntry
          /\ limiter.state[ip1].count = limiter.limit
          /\ limiter.state[ip2].count = 1
          /\ limiter.state[ip2].window_start > limiter.state[ip1].window_start
          /\ checks[c1].pc = "done" /\ ~checks[c1].result.ok
          /\ checks[c2].pc = "done"
          /\ checks[c2].result = Ok(limiter.limit - 1)

\* C15: a refused check returns retry_after = 60 minus the whole seconds the
\* current window has lasted, at least 1: a value in 1..60; the subtraction
\* never goes below zero.
C15_RetryAfter ==
    [][\A c \in Checking :
          /\ checks'[c].pc # "panic"
          /\ ~checks'[c].result.ok =>
                LET start == limiter'.state[checks[c].ip].window_start
                    lasted == IF checks[c].now > start
                              THEN (checks[c].now - start) \div TicksPerSecond
                              ELSE 0
                    retry_after == checks'[c].result.err[2]
                IN /\ 60 - lasted >= 0
                   /\ retry_after = IF 60 - lasted >= 1 THEN 60 - lasted ELSE 1
                   /\ retry_after \in 1..60
      ]_vars

\* refusals late in a window (1 second left) and early in one (60 left)
C15_Witness ==
    \E c1 \in CheckIds, c2 \in CheckIds :
        /\ checks[c1].pc = "done" /\ ~checks[c1].result.ok
        /\ checks[c1].result.err[2] = 1
        /\ checks[c2].pc = "done" /\ ~checks[c2].result.ok
        /\ checks[c2].result.err[2] = 60

\* the steps of caller c that finish a call of op
Finishes(c, op) ==
    ops[c].pc # "done" /\ ops'[c].pc = "done" /\ ops'[c].op = op

\* C16: cleanup_expired deletes exactly the rows whose expiry lies before the
\* instant of the call and returns their number; rows with a later expiry
\* or none stay, with nothing expired nothing is deleted and 0 returned, and
\* every deleted link is one that is_expired, as resolve tests it, reports
C16_CleanupExact ==
    [][\A c \in Callers : Finishes(c, "cleanup_expired") =>
          LET deleted == links \ links'
              past == {row \in links :
                         LET link == row_to_link(row)
                         IN link.expires_at # None /\ dt_lt(link.expires_at, utc)}
          IN /\ links' \subseteq links
             /\ deleted = past
             /\ ops'[c].result = Ok(Cardinality(past))
             /\ past = {} => links' = links /\ ops'[c].result = Ok(0)
             /\ \A row \in deleted : is_expired(row_to_link(row), utc)]_vars

\* a cleanup has deleted a link and kept one that expires at this very instant
C16_Witness ==
    \E c \in Callers :
        /\ ops[c].pc = "done" /\ ops[c].op = "cleanup_expired"
        /\ ops[c].result = Ok(1)
        /\ \E row \in links : row.expires_at = to_rfc3339(utc)

\* C17: delete_link(id) removes the link with that id, which then is in no
\* listing and is not found by its short code, and leaves every other link;
\* when no link has the id it returns LinkNotFound and the table is unchanged
C17_DeleteById ==
    [][\A c \in Callers : Finishes(c, "delete_link") =>
          LET id == ops'[c].arg
              gone == {row \in links : row.id = id}
          IN IF gone # {}
             THEN /\ ops'[c].result = Ok(None)
                  /\ links' = links \ gone
                  /\ \A listed \in list_all(links') :
                        \A i \in DOMAIN listed : listed[i].id # id
                  /\ \A row \in gone :
                        find_by_short_code(links', row.short_code) = None
             ELSE /\ ops'[c].result = Err("LinkNotFound", "")
                  /\ links' = links]_vars

\* a link has been deleted while another one is stored
C17_Witness ==
    \E c \in Callers :
        /\ ops[c].pc = "done" /\ ops[c].op = "delete_link"
        /\ ops[c].result.ok
        /\ \E row \in links : row.id # ops[c].arg

\* C18: a link is expired at now exactly when it has an expiry and
\* now >= expires_at; resolve returns LinkNotFound when no row has the code,
\* LinkExpired when the link found is expired at the instant resolve reads
\* the clock, whether or not the row is still stored, and the link otherwise
C18_ResolveExpiry ==
    [][\A c \in Callers : Finishes(c, "resolve") =>
          IF ops[c].pc = "idle"
          THEN /\ ops'[c].result = Err("LinkNotFound", "")
               /\ \A row \in links : row.short_code # ops'[c].arg
          ELSE LET link == ops[c].link
                   expired == /\ link.expires_at # None
                              /\ \/ utc.secs > link.expires_at.secs
                                 \/ /\ utc.secs = link.expires_at.secs
                                    /\ utc.micros >= link.expires_at.micros
               IN /\ link.short_code = ops'[c].arg
                  /\ ops'[c].result = IF expired THEN Err("LinkExpired", "")
                                      ELSE Ok(link)]_vars

\* resolve has reported a stored link expired at its expiry instant itself
C18_Witness ==
    \E c \in Callers :
        /\ ops[c].pc = "done" /\ ops[c].op = "resolve"
        /\ ops[c].result = Err("LinkExpired", "")
        /\ \E row \in links :
              row.short_code = ops[c].arg /\ row.expires_at = to_rfc3339(utc)

\* C19: create_link stores the creation time plus 7, 30 or 365 days for
\* OneWeek, OneMonth, OneYear, and no expiry for Never or an absent TTL; the
\* stored row reads back as the link returned, and a link without expiry is
\* at no instant expired or deleted by the cleanup
C19_TtlExpiry ==
    [][\A c \in Callers : Finishes(c, "create_link") /\ ops'[c].result.ok =>
          LET ttl == ops'[c].arg[2]
              link == ops'[c].result.val
              days == CASE ttl = "OneWeek" -> 7
                        [] ttl = "OneMonth" -> 30
                        [] ttl = "OneYear" -> 365
                        [] OTHER -> 0
          IN /\ link.created_at = ops[c].now
             /\ IF ttl \in {"None", "Never"}
                THEN /\ link.expires_at = None
                     /\ \A t \in UtcInstants :
                           /\ ~is_expired(link, t)
                           /\ \A row \in links' \ links :
                                 row \in delete_expired(links', t).table
                ELSE link.expires_at =
                         [secs |-> link.created_at.secs + days * 86400,
                          micros |-> link.created_at.micros]
             /\ \E row \in links' \ links :
                   /\ links' = links \cup {row}
                   /\ LinkResponse_from_link(row_to_link(row)) = link]_vars

\* a link created within a second with a TTL of a year has been stored
C19_Witness ==
    \E c \in Callers :
        /\ ops[c].pc = "done" /\ ops[c].op = "create_link"
        /\ ops[c].arg[2] = "OneYear"
        /\ ops[c].result.ok
        /\ ops[c].result.val.created_at.micros = 500001
        /\ \E row \in links :
              LinkResponse_from_link(row_to_link(row)) = ops[c].result.val

\* the backing rectangle of geometry g on a W x H canvas: the logo sits at
\* ((W - new_width) / 2, (H - new_height) / 2), the rectangle reaches 4 px
\* beyond it on each of the four sides, none of it is cut off, and its
\* centre is the centre of the canvas (half a pixel before it when the
\* division by 2 rounds)
BackingPlaced(g, W, H) ==
    /\ g.x_offset = (W - g.new_width) \div 2
    /\ g.y_offset = (H - g.new_height) \div 2
    /\ g.bg_width = g.new_width + 8
    /\ g.bg_height = g.new_height + 8
    /\ g.bg_x = g.x_offset - 4
    /\ g.bg_y = g.y_offset - 4
    /\ g.bg_x >= 0 /\ g.bg_x_end = g.x_offset + g.new_width + 4
    /\ g.bg_y >= 0 /\ g.bg_y_end = g.y_offset + g.new_height + 4
    /\ g.bg_x_end <= W /\ g.bg_y_end <= H
    /\ W - (2 * g.bg_x + g.bg_width) \in {0, 1}
    /\ H - (2 * g.bg_y + g.bg_height) \in {0, 1}

\* C21: on every canvas a QR image can be (sides of 10 px or more; the
\* smallest image is 29 px wide) and for every logo size, the backing is the
\* scaled logo's rectangle widened by 4 px on each side, centred on the
\* canvas, with the logo at ((W - new_width) / 2, (H - new_height) / 2); the
\* backing loop paints every pixel of it opaque white and no other pixel
C21_BackingRectangle ==
    [][/\ (ov.pc = "call" /\ ov'.pc = "ret" /\ Min(ov.W, ov.H) >= 10) =>
             BackingPlaced(ov'.out, ov.W, ov.H)
       /\ (px.pc = "background" /\ px'.pc = "blend") =>
             LET g == px.g
                 W == px.qr.width
                 H == px.qr.height
             IN /\ BackingPlaced(g, W, H)
                /\ \A y \in 0..(H - 1), x \in 0..(W - 1) :
                      IF /\ g.x_offset - 4 <= x /\ x < g.x_offset + g.new_width + 4
                         /\ g.y_offset - 4 <= y /\ y < g.y_offset + g.new_height + 4
                      THEN /\ px'.img.px[y][x] = Rgba(255, 255, 255, 255)
                           /\ Channel(px'.img.px[y][x], 3) = 255
                      ELSE px'.img.px[y][x] = px.img.px[y][x]
      ]_vars

\* the backing of a shrunk logo has been painted over dark modules, on a
\* canvas where the division by 2 rounds
C21_Witness ==
    /\ px.pc = "blend"
    /\ px.g.new_width < px.logo.width
    /\ (px.qr.width - px.g.new_width) % 2 = 1
    /\ \E y \in 0..(px.qr.height - 1), x \in 0..(px.qr.width - 1) :
          /\ InBacking(px.g, x, y)
          /\ px.qr.px[y][x] = Black
          /\ px.img.px[y][x] = White

\* the extensions of the vector and of the raster kind, in any case
VectorExtensions == {"svg", "SVG", "Svg"}
RasterExtensions == {"png", "PNG", "jpg", "JPG", "jpeg", "JPEG"}

\* the messages of a file that cannot be read: std::fs::read failing on the
\* vector path, image::open failing on the raster path
ReadFailures == {"Failed to read SVG file", "Failed to open logo image"}

\* C22: load_logo follows the extension alone, in any case: svg takes the
\* vector path, png, jpg and jpeg the raster path, and every other or missing
\* extension fails as unsupported before the file is touched, whatever is on
\* disk; a file that cannot be read fails with a read failure, SVG source
\* that does not parse with the parse failure; the three failures have
\* different messages, the messages of the SVG read failure, the parse
\* failure and the unsupported extension name their cause only, and each
\* failure carries its reason
C22_LoadByExtension ==
    [][LET path == ld.path
           r == ld'.result
       IN /\ (ld.pc = "call" /\ path.ext \in VectorExtensions) => ld'.pc = "svg"
          /\ (ld.pc = "call" /\ path.ext \in RasterExtensions) => ld'.pc = "raster"
          /\ (ld.pc = "call" /\ path.ext \notin VectorExtensions \cup RasterExtensions) =>
                /\ ld'.pc = "ret"
                /\ ~ld'.opened
                /\ r = Err("Unsupported logo format", path.ext)
          /\ (ld.pc # "ret" /\ ld'.pc = "ret") =>
                /\ r = load_logo(path)
                /\ (ld'.opened /\ path.disk \in {"missing", "unreadable"}) =>
                      /\ ~r.ok
                      /\ r.err[1] \in ReadFailures
                      /\ r.err[2] = path.disk
                /\ (ld.pc = "svg" /\ path.disk \in {"garbage", "raster"}) =>
                      r = Err("Failed to parse SVG", path.disk)
                /\ ~r.ok =>
                      /\ r.err[1] \in LogoFailures
                      /\ r.err[1] = "Unsupported logo format" <=> ~ld'.opened
                      /\ r.err[1] = "Failed to read SVG file" <=>
                            (ld.pc = "svg" /\ path.disk \in {"missing", "unreadable"})
                      /\ r.err[1] = "Failed to parse SVG" <=>
                            (ld.pc = "svg" /\ path.disk \in {"garbage", "raster"})
                      /\ r.err[1] = "Failed to open logo image" => ld.pc = "raster"
                /\ r.ok => (ld'.opened /\ path.disk \in {"raster", "svg"})
      ]_vars

\* a bitmap named logo.txt was refused without being opened
C22_Witness ==
    /\ ld.pc = "ret"
    /\ ld.path.ext = "txt" /\ ld.path.disk = "raster"
    /\ ~ld.opened
    /\ ~ld.result.ok

\* C23: create_link answers an unparseable URL with InvalidUrl and writes
\* nothing; otherwise it makes at most 5 insert attempts, each with a newly
\* drawn short code, and goes round again only after an insert that reported
\* a collision; the first insert that succeeds ends the call with that
\* link, any other repository error ends it at once, and the fifth
\* collision ends it with ShortCodeExhausted. Every call returns, adds at
\* most one row, and no two stored rows share a short code.
C23_CreateLink ==
    /\ [](\A r1 \in links, r2 \in links :
             r1.short_code = r2.short_code => r1 = r2)
    /\ [][\A c \in Creators :
            /\ (ops[c].pc = "idle" /\ ops'[c].pc # "idle"
                   /\ ops'[c].op = "create_link") =>
                  /\ links' = links
                  /\ IF ops'[c].arg[1] = "not-a-valid-url"
                     THEN /\ ops'[c].pc = "done"
                          /\ ops'[c].result = Err("InvalidUrl", "not-a-valid-url")
                     ELSE /\ ops'[c].pc = "insert"
                          /\ ops'[c].attempts = 0
            /\ (ops[c].pc = "insert" /\ ops'[c] # ops[c]) =>
                  /\ ops[c].attempts < 5
                  /\ links \subseteq links'
                  /\ Cardinality(links' \ links) <= 1
                  /\ (links' # links) => (ops'[c].pc = "done" /\ ops'[c].result.ok)
                  /\ ops'[c].pc \in {"insert", "done"}
                  /\ ops'[c].pc = "insert" =>
                        /\ ops'[c].attempts = ops[c].attempts + 1
                        /\ ops'[c].attempts < 5
                        /\ links # {}
                  /\ ops'[c].pc = "done" =>
                        /\ ops'[c].op = "create_link"
                        /\ ops'[c].arg = ops[c].arg
                        /\ IF ops'[c].result.ok
                           THEN \E row \in links' \ links :
                                  /\ row.id = ops'[c].result.val.id
                                  /\ row.short_code = ops'[c].result.val.short_code
                                  /\ \A old \in links :
                                        /\ old.short_code # row.short_code
                                        /\ old.id # row.id
                           ELSE \/ ops'[c].result = Err("Database", "")
                                \/ /\ ops'[c].result = Err("ShortCodeExhausted", "")
                                   /\ ops[c].attempts = 4
                                   /\ links # {}
      ]_vars
    /\ \A c \in Creators : (ops[c].pc = "insert") ~> (ops[c].pc = "done")

\* a call gave up after five collisions although one of the two short codes
\* was free
C23_Witness ==
    /\ Cardinality(links) = 1
    /\ \E c \in Creators :
          /\ ops[c].pc = "done" /\ ops[c].op = "create_link"
          /\ ops[c].result = Err("ShortCodeExhausted", "")

====
